---- MODULE Spec2Model ----
(***************************************************************************)
(* Model of src/src/main.rs: the winit event-loop closure of the           *)
(* wgpu-openxr-example renderer.  One handler invocation runs to           *)
(* completion on the single event-loop thread; pc is the position inside   *)
(* the closure ("idle" between invocations).  Every statement of the       *)
(* closure that touches renderer state is one step, taken in source order. *)
(*                                                                         *)
(* Numbers: window sizes are u32 pixels.  f32 values that come from a      *)
(* division are kept as the reduced fraction the quotient rounds (two      *)
(* different reduced fractions with small terms round to different f32).   *)
(* Elapsed time is sampled in whole seconds; cos is evaluated in           *)
(* millionths.                                                             *)
(***************************************************************************)
EXTENDS Integers, Sequences, FiniteSets, TLC

\* ---------------------------------------------------------------- bounds
\* Largest window dimension an event carries.
MaxDim == 2
\* Number of resize events delivered in one run (each creates two views).
MaxResizes == 1
\* Largest elapsed time (seconds) read by a tick.
MaxTime == 2
\* Number of distinct FrameState values the XR runtime hands out.
MaxFrameStates == 1

Dims == 0..MaxDim
Times == 0..MaxTime
FrameStates == 1..MaxFrameStates

VARIABLES
    pc,                 \* position in main / in the closure
    event,              \* event of the current (or last) handler invocation
    cleared,            \* local `cleared`
    control_flow,       \* *control_flow
    redraw_requested,   \* window.request_redraw() pending
    xr_state,           \* Option<XrState>: "None" | "Some"
    xr_frame_state,     \* local xr_frame_state: Option<FrameState>
    config,             \* wgpu::SurfaceConfiguration {width, height}
    surface_config,     \* size the surface was last configured with
    depth_view,         \* depth texture view
    render_target_view, \* offscreen colour target view
    blit_bind_group,    \* bind group sampling the offscreen target
    next_view,          \* next fresh texture-view identity
    replaced,           \* identities of views dropped by a reassignment
    camera,             \* PerspectiveCamera
    instances,          \* [(Vec3, Quat); 3]
    camera_buffer,      \* contents of the camera uniform buffer
    instance_buffer,    \* contents of the instance vertex buffer
    encoder,            \* passes recorded in the live command encoder
    frame,              \* surface frame held by the tick: "none" | "acquired"
    submitted,          \* what the last queue.submit executed
    now,                \* start_time.elapsed(), whole seconds
    ops,                \* operations performed by the current invocation
    xr_calls            \* XR hook calls of the current invocation

vars == << pc, event, cleared, control_flow, redraw_requested, xr_state,
           xr_frame_state, config, surface_config, depth_view,
           render_target_view, blit_bind_group, next_view, replaced, camera,
           instances, camera_buffer, instance_buffer, encoder, frame,
           submitted, now, ops, xr_calls >>

\* ------------------------------------------------------------ arithmetic
RECURSIVE Gcd(_, _)
Gcd(a, b) == IF b = 0 THEN a ELSE Gcd(b, a % b)

\* `n as f32` for a u32: exact up to 2^24, above that rounded to the
\* nearest representable value (24-bit significand, ties to even).
RECURSIVE Ulp(_, _)
Ulp(n, u) == IF n < 16777216 * u THEN u ELSE Ulp(n, 2 * u)

AsF32(n) ==
    LET u == Ulp(n, 1)
        lo == (n \div u) * u
        r == n - lo
    IN  IF 2 * r < u THEN lo
        ELSE IF 2 * r > u THEN lo + u
        ELSE IF (lo \div u) % 2 = 0 THEN lo ELSE lo + u

\* f32 division a / b of two non-negative values: the quotient as a reduced
\* fraction; x/0 is +inf (1/0) and 0/0 is NaN (0/0).
F32Div(a, b) ==
    IF b = 0 THEN [num |-> IF a = 0 THEN 0 ELSE 1, den |-> 0]
    ELSE LET g == Gcd(a, b) IN [num |-> a \div g, den |-> b \div g]

\* f32::cos in millionths, by the Maclaurin series.
RECURSIVE CosSeries(_, _, _, _)
CosSeries(t, k, term, acc) ==
    IF k > 8 THEN acc
    ELSE LET mag == (term * t * t) \div ((2 * k - 1) * (2 * k))
         IN  CosSeries(t, k + 1, mag,
                       IF k % 2 = 1 THEN acc - mag ELSE acc + mag)

Cos(t) == CosSeries(t, 1, 1000000, 1000000)

\* glam vectors in millionths.
Vec3(x, y, z) == << x * 1000000, y * 1000000, z * 1000000 >>

\* Quat::IDENTITY and Quat::from_rotation_y(t / PI): a rotation about +Y is
\* kept as its angle numerator t (angle t/PI radians); angle 0 is the
\* identity quaternion (0, 0, 0, 1).
QuatIdentity == [axis |-> "none", angle_over_pi |-> 0]
QuatFromRotationY(t) ==
    IF t = 0 THEN QuatIdentity ELSE [axis |-> "y", angle_over_pi |-> t]

\* ------------------------------------------------------- pure functions
\* PerspectiveCamera::to_view_proj_matrix: proj * view, kept as the two
\* factors with the arguments they are built from.
to_view_proj_matrix(cam) ==
    [ view |-> [eye |-> cam.eye, target |-> cam.target, up |-> cam.up],
      proj |-> [fov_y_deg |-> cam.fov_y_deg, aspect_ratio |-> cam.aspect_ratio,
                z_near_milli |-> cam.z_near_milli, z_far |-> cam.z_far] ]

\* instance_poses_to_data: one affine matrix per pose, scale fixed at ONE,
\* in the order of the poses.
instance_poses_to_data(poses) ==
    [ i \in 1..Len(poses) |->
        [scale |-> Vec3(1, 1, 1), rotation |-> poses[i][2],
         translation |-> poses[i][1]] ]

\* Variant: the depth texture is created with width and height exchanged.
create_depth_texture_transposed(id, cfg) ==
    [id |-> id, width |-> cfg.height, height |-> cfg.width, format |-> "Depth32Float"]

\* create_depth_texture / create_render_target_texture: a fresh view of a
\* fresh texture whose extent is the configuration's size.
create_depth_texture(id, cfg) ==
    [id |-> id, width |-> cfg.width, height |-> cfg.height, format |-> "Depth32Float"]

create_render_target_texture(id, cfg) ==
    [id |-> id, width |-> cfg.width, height |-> cfg.height, format |-> "swapchain"]

\* device.create_bind_group for the blit pass: binding 0 is the view.
create_blit_bind_group(view) == [view |-> view.id, sampler |-> "blit_sampler"]

\* A wgpu call given a zero extent is a validation error; whether the
\* library panics on it or lets it through depends on the backend, so both
\* outcomes are possible.
ZeroArea(cfg) == cfg.width = 0 \/ cfg.height = 0
Accepts(cfg) == IF ZeroArea(cfg) THEN BOOLEAN ELSE {TRUE}

\* ----------------------------------------------------------------- state
NoView == [id |-> 0, width |-> 0, height |-> 0, format |-> "none"]
NoEvent == [kind |-> "none", width |-> 0, height |-> 0]
NoFrameState == [some |-> FALSE, state |-> 0]

\* Construction values of the camera and the instance list (lines 45-56 and
\* 91-95); aspect_ratio is filled in from the window size at startup.
InitialCamera ==
    [eye |-> Vec3(0, 0, 0), target |-> Vec3(0, 0, 1), up |-> Vec3(0, 1, 0),
     aspect_ratio |-> F32Div(0, 0),
     fov_y_deg |-> 90, z_near_milli |-> 50, z_far |-> 1000]

InitialInstances ==
    << << Vec3(0, 0, 1), QuatIdentity >>,
       << Vec3(1, 0, 2), QuatIdentity >>,
       << Vec3(-1, 0, 2), QuatIdentity >> >>

Init ==
    /\ pc = "start"
    /\ event = NoEvent
    /\ cleared = FALSE
    /\ control_flow = "Poll"
    /\ redraw_requested = FALSE
    /\ xr_state = "None"
    /\ xr_frame_state = NoFrameState
    /\ config = [width |-> 0, height |-> 0]
    /\ surface_config = [width |-> 0, height |-> 0]
    /\ depth_view = NoView
    /\ render_target_view = NoView
    /\ blit_bind_group = [view |-> 0, sampler |-> "none"]
    /\ next_view = 1
    /\ replaced = {}
    /\ camera = InitialCamera
    /\ instances = InitialInstances
    /\ camera_buffer = to_view_proj_matrix(InitialCamera)
    /\ instance_buffer = instance_poses_to_data(InitialInstances)
    /\ encoder = << >>
    /\ frame = "none"
    /\ submitted = [passes |-> << >>,
                    camera |-> to_view_proj_matrix(InitialCamera),
                    instances |-> instance_poses_to_data(InitialInstances)]
    /\ now = 0
    /\ ops = << >>
    /\ xr_calls = << >>

\* Variant: height / width.
AspectRatioInverted(width, height) == F32Div(AsF32(height), AsF32(width))

\* width / height after the cast to f32 (lines 49-52 and 359).
AspectRatio(width, height) == F32Div(AsF32(width), AsF32(height))

\* Variant: the bind group is rebuilt before the offscreen target is.
ResizeStepsBindGroupFirst ==
    << "resize_configure", "resize_depth", "resize_bind_group",
       "resize_target", "resize_aspect", "resize_redraw" >>

\* Variants of the tick order: the blit pass recorded first; the frame
\* acquired before the scene pass; the buffers updated before recording;
\* the submission moved ahead of the buffer updates.
TickStepsBlitFirst ==
    << "pre_frame", "create_encoder", "acquire", "blit_pass", "scene_pass",
       "update_camera", "update_instances", "submit", "present",
       "post_frame" >>

TickStepsAcquireFirst ==
    << "pre_frame", "create_encoder", "acquire", "scene_pass", "blit_pass",
       "update_camera", "update_instances", "submit", "present",
       "post_frame" >>

TickStepsUpdateFirst ==
    << "pre_frame", "update_camera", "update_instances", "create_encoder",
       "scene_pass", "acquire", "blit_pass", "submit", "present",
       "post_frame" >>

TickStepsSubmitFirst ==
    << "pre_frame", "create_encoder", "scene_pass", "acquire", "blit_pass",
       "submit", "update_camera", "update_instances", "present",
       "post_frame" >>

\* Variant of the tick order: post_frame called before the present.
TickStepsPostFrameEarly ==
    << "pre_frame", "create_encoder", "scene_pass", "acquire", "blit_pass",
       "update_camera", "update_instances", "submit", "post_frame",
       "present" >>

\* Variant of the tick order: the frame presented before the submission.
TickStepsPresentFirst ==
    << "pre_frame", "create_encoder", "scene_pass", "acquire", "blit_pass",
       "update_camera", "update_instances", "present", "submit",
       "post_frame" >>

\* Statement order of the Resized arm (lines 338-362) and of the tick
\* (lines 379-458); each name is the pc of the step that executes it.
ResizeSteps ==
    << "resize_configure", "resize_depth", "resize_target",
       "resize_bind_group", "resize_aspect", "resize_redraw" >>

TickSteps ==
    << "pre_frame", "create_encoder", "scene_pass", "acquire", "blit_pass",
       "update_camera", "update_instances", "submit", "present",
       "post_frame" >>

\* The step after p in steps, or end when p is the last one.
After(steps, p, end) ==
    LET i == CHOOSE j \in 1..Len(steps) : steps[j] = p
    IN  IF i = Len(steps) THEN end ELSE steps[i + 1]

\* ---------------------------------------------------------------- startup
\* main up to event_loop.run (lines 23-318).  Window creation, adapter
\* selection, device creation and (with --xr) the XR initialisation return
\* through `?` on failure; otherwise every resource is built from the
\* window's inner size.
StartupOutcomes ==
    {"Ok", "WindowFailed", "NoCompatibleAdapter", "DeviceCreationFailed",
     "XrInitFailed"}

\* Variant: a failed initialisation is tried again.
StartupRetries ==
    /\ pc = "start"
    /\ \E outcome \in StartupOutcomes, xr \in {"None", "Some"},
          w \in 1..MaxDim, h \in 1..MaxDim :
         IF outcome # "Ok"
         THEN /\ pc' = "start"
              /\ ops' = << outcome >>
              /\ UNCHANGED << xr_state, config, surface_config, depth_view,
                              render_target_view, blit_bind_group, next_view,
                              camera, camera_buffer, instance_buffer >>
         ELSE LET cfg == [width |-> w, height |-> h]
                  cam == [camera EXCEPT
                            !.aspect_ratio = AspectRatio(w, h)]
                  target == create_render_target_texture(next_view + 1, cfg)
              IN  /\ pc' = "idle"
                  /\ xr_state' = xr
                  /\ camera' = cam
                  /\ camera_buffer' = to_view_proj_matrix(cam)
                  /\ instance_buffer' = instance_poses_to_data(instances)
                  /\ config' = cfg
                  /\ depth_view' = create_depth_texture(next_view, cfg)
                  /\ render_target_view' = target
                  /\ surface_config' = cfg
                  /\ blit_bind_group' = create_blit_bind_group(target)
                  /\ next_view' = next_view + 2
                  /\ ops' = << "create_depth", "create_render_target",
                               "configure", "create_bind_group" >>
    /\ UNCHANGED << event, cleared, control_flow, redraw_requested,
                    xr_frame_state, replaced, instances, encoder, frame,
                    submitted, now,
                    xr_calls >>

Startup ==
    /\ pc = "start"
    /\ \E outcome \in StartupOutcomes, xr \in {"None", "Some"},
          w \in 1..MaxDim, h \in 1..MaxDim :
         IF outcome # "Ok"
         THEN /\ pc' = "exit_err"
              /\ ops' = << outcome >>
              /\ UNCHANGED << xr_state, config, surface_config, depth_view,
                              render_target_view, blit_bind_group, next_view,
                              camera, camera_buffer, instance_buffer >>
         ELSE LET cfg == [width |-> w, height |-> h]
                  cam == [camera EXCEPT
                            !.aspect_ratio = AspectRatio(w, h)]
                  target == create_render_target_texture(next_view + 1, cfg)
              IN  /\ pc' = "idle"
                  /\ xr_state' = xr
                  /\ camera' = cam
                  /\ camera_buffer' = to_view_proj_matrix(cam)
                  /\ instance_buffer' = instance_poses_to_data(instances)
                  /\ config' = cfg
                  /\ depth_view' = create_depth_texture(next_view, cfg)
                  /\ render_target_view' = target
                  /\ surface_config' = cfg
                  /\ blit_bind_group' = create_blit_bind_group(target)
                  /\ next_view' = next_view + 2
                  /\ ops' = << "create_depth", "create_render_target",
                               "configure", "create_bind_group" >>
    /\ UNCHANGED << event, cleared, control_flow, redraw_requested,
                    xr_frame_state, replaced, instances, encoder, frame,
                    submitted, now,
                    xr_calls >>

\* ------------------------------------------------------- event delivery
\* Events winit hands to the closure.  RedrawRequested is delivered only
\* after a request_redraw; "Other" stands for every event the match sends
\* to its `_` arm besides RedrawRequested.
Events ==
    [kind : {"Resized"}, width : Dims, height : Dims]
    \cup { [kind |-> k, width |-> 0, height |-> 0] :
             k \in {"MainEventsCleared", "CloseRequested", "RedrawRequested",
                    "Other"} }

ViewsCreatedAtStartup == 2

\* Top of the closure (lines 319-329): cleared = false, *control_flow = Poll.
Deliver ==
    /\ pc = "idle"
    /\ \E e \in Events :
         /\ e.kind = "Resized" =>
                next_view - 1 < ViewsCreatedAtStartup + 2 * MaxResizes
         /\ e.kind = "RedrawRequested" => redraw_requested
         /\ event' = e
         /\ redraw_requested' =
                IF e.kind = "RedrawRequested" THEN FALSE ELSE redraw_requested
    /\ cleared' = FALSE
    /\ control_flow' = "Poll"
    /\ ops' = << >>
    /\ xr_calls' = << >>
    /\ pc' = "match"
    /\ UNCHANGED << xr_state, xr_frame_state, config, surface_config,
                    depth_view, render_target_view, blit_bind_group,
                    next_view, replaced, camera, instances, camera_buffer,
                    instance_buffer, encoder, frame, submitted, now >>

\* ------------------------------------------------------------ match arms
\* WindowEvent::Resized(size), lines 336-337: the configuration takes the
\* event's size, whatever it is.
MatchResized ==
    /\ pc = "match"
    /\ event.kind = "Resized"
    /\ config' = [width |-> event.width, height |-> event.height]
    /\ pc' = ResizeSteps[1]
    /\ UNCHANGED << event, cleared, control_flow, redraw_requested, xr_state,
                    xr_frame_state, surface_config, depth_view,
                    render_target_view, blit_bind_group, next_view, replaced,
                    camera, instances, camera_buffer, instance_buffer,
                    encoder, frame, submitted, now, ops,
                    xr_calls >>

\* surface.configure(&device, &config), line 338.
ResizeConfigure ==
    /\ pc = "resize_configure"
    /\ \E ok \in Accepts(config) :
         IF ok
         THEN /\ surface_config' = config
              /\ ops' = Append(ops, "configure")
              /\ pc' = After(ResizeSteps, "resize_configure", "check_cleared")
         ELSE /\ pc' = "panicked"
              /\ UNCHANGED << surface_config, ops >>
    /\ UNCHANGED << event, cleared, control_flow, redraw_requested, xr_state,
                    xr_frame_state, config, depth_view, render_target_view,
                    blit_bind_group, next_view, replaced, camera, instances,
                    camera_buffer, instance_buffer, encoder, frame, submitted,
                    now,
                    xr_calls >>

\* (_, depth_view) = create_depth_texture(..), line 339: the old view is
\* dropped by the assignment.
ResizeDepth ==
    /\ pc = "resize_depth"
    /\ \E ok \in Accepts(config) :
         IF ok
         THEN /\ depth_view' = create_depth_texture(next_view, config)
              /\ replaced' = replaced \cup {depth_view.id}
              /\ next_view' = next_view + 1
              /\ ops' = Append(ops, "create_depth")
              /\ pc' = After(ResizeSteps, "resize_depth", "check_cleared")
         ELSE /\ pc' = "panicked"
              /\ UNCHANGED << depth_view, replaced, next_view, ops >>
    /\ UNCHANGED << event, cleared, control_flow, redraw_requested, xr_state,
                    xr_frame_state, config, surface_config,
                    render_target_view, blit_bind_group, camera, instances,
                    camera_buffer, instance_buffer, encoder, frame, submitted,
                    now,
                    xr_calls >>

\* (_, render_target_view) = create_render_target_texture(..), lines 340-341.
ResizeTarget ==
    /\ pc = "resize_target"
    /\ \E ok \in Accepts(config) :
         IF ok
         THEN /\ render_target_view' =
                     create_render_target_texture(next_view, config)
              /\ replaced' = replaced \cup {render_target_view.id}
              /\ next_view' = next_view + 1
              /\ ops' = Append(ops, "create_render_target")
              /\ pc' = After(ResizeSteps, "resize_target", "check_cleared")
         ELSE /\ pc' = "panicked"
              /\ UNCHANGED << render_target_view, replaced, next_view, ops >>
    /\ UNCHANGED << event, cleared, control_flow, redraw_requested, xr_state,
                    xr_frame_state, config, surface_config, depth_view,
                    blit_bind_group, camera, instances, camera_buffer,
                    instance_buffer, encoder, frame, submitted, now,
                    xr_calls >>

\* Variant: the bind group is left as it was.
ResizeBindGroupStale ==
    /\ pc = "resize_bind_group"
    /\ ops' = Append(ops, "create_bind_group")
    /\ pc' = After(ResizeSteps, "resize_bind_group", "check_cleared")
    /\ UNCHANGED << event, cleared, control_flow, redraw_requested, xr_state,
                    xr_frame_state, config, surface_config, depth_view,
                    render_target_view, blit_bind_group, next_view, replaced,
                    camera, instances, camera_buffer, instance_buffer,
                    encoder, frame, submitted, now,
                    xr_calls >>

\* blit_bind_group = device.create_bind_group(..), lines 343-358.
ResizeBindGroup ==
    /\ pc = "resize_bind_group"
    /\ blit_bind_group' = create_blit_bind_group(render_target_view)
    /\ ops' = Append(ops, "create_bind_group")
    /\ pc' = After(ResizeSteps, "resize_bind_group", "check_cleared")
    /\ UNCHANGED << event, cleared, control_flow, redraw_requested, xr_state,
                    xr_frame_state, config, surface_config, depth_view,
                    render_target_view, next_view, replaced, camera,
                    instances, camera_buffer, instance_buffer, encoder, frame,
                    submitted, now,
                    xr_calls >>

\* Variant: the resize rebuilds the camera from its construction values.
ResizeAspectResetsCamera ==
    /\ pc = "resize_aspect"
    /\ camera' = [InitialCamera EXCEPT !.aspect_ratio =
                     AspectRatio(event.width, event.height)]
    /\ ops' = Append(ops, "set_aspect_ratio")
    /\ pc' = After(ResizeSteps, "resize_aspect", "check_cleared")
    /\ UNCHANGED << event, cleared, control_flow, redraw_requested, xr_state,
                    xr_frame_state, config, surface_config, depth_view,
                    render_target_view, blit_bind_group, next_view, replaced,
                    instances, camera_buffer, instance_buffer, encoder, frame,
                    submitted, now,
                    xr_calls >>

\* camera.aspect_ratio = (size.width as f32) / (size.height as f32), line 359.
ResizeAspect ==
    /\ pc = "resize_aspect"
    /\ camera' = [camera EXCEPT !.aspect_ratio =
                     AspectRatio(event.width, event.height)]
    /\ ops' = Append(ops, "set_aspect_ratio")
    /\ pc' = After(ResizeSteps, "resize_aspect", "check_cleared")
    /\ UNCHANGED << event, cleared, control_flow, redraw_requested, xr_state,
                    xr_frame_state, config, surface_config, depth_view,
                    render_target_view, blit_bind_group, next_view, replaced,
                    instances, camera_buffer, instance_buffer, encoder, frame,
                    submitted, now,
                    xr_calls >>

\* window.request_redraw(), line 362.
ResizeRequestRedraw ==
    /\ pc = "resize_redraw"
    /\ redraw_requested' = TRUE
    /\ pc' = After(ResizeSteps, "resize_redraw", "check_cleared")
    /\ UNCHANGED << event, cleared, control_flow, xr_state, xr_frame_state,
                    config, surface_config, depth_view, render_target_view,
                    blit_bind_group, next_view, replaced, camera, instances,
                    camera_buffer, instance_buffer, encoder, frame, submitted,
                    now, ops,
                    xr_calls >>

\* Event::MainEventsCleared, lines 364-367.
MatchMainEventsCleared ==
    /\ pc = "match"
    /\ event.kind = "MainEventsCleared"
    /\ redraw_requested' = TRUE
    /\ cleared' = TRUE
    /\ pc' = "check_cleared"
    /\ UNCHANGED << event, control_flow, xr_state, xr_frame_state, config,
                    surface_config, depth_view, render_target_view,
                    blit_bind_group, next_view, replaced, camera, instances,
                    camera_buffer, instance_buffer, encoder, frame, submitted,
                    now, ops,
                    xr_calls >>

\* WindowEvent::CloseRequested, lines 368-371.
MatchCloseRequested ==
    /\ pc = "match"
    /\ event.kind = "CloseRequested"
    /\ control_flow' = "Exit"
    /\ pc' = "check_cleared"
    /\ UNCHANGED << event, cleared, redraw_requested, xr_state,
                    xr_frame_state, config, surface_config, depth_view,
                    render_target_view, blit_bind_group, next_view, replaced,
                    camera, instances, camera_buffer, instance_buffer,
                    encoder, frame, submitted, now, ops,
                    xr_calls >>

\* Variant: the `_` arm, which takes RedrawRequested, starts a tick.
MatchOtherTicks ==
    /\ pc = "match"
    /\ event.kind \in {"RedrawRequested", "Other"}
    /\ cleared' = (event.kind = "RedrawRequested")
    /\ pc' = "check_cleared"
    /\ UNCHANGED << event, control_flow, redraw_requested, xr_state,
                    xr_frame_state, config, surface_config, depth_view,
                    render_target_view, blit_bind_group, next_view, replaced,
                    camera, instances, camera_buffer, instance_buffer,
                    encoder, frame, submitted, now, ops, xr_calls >>

\* `_ => {}`, line 372.
MatchOther ==
    /\ pc = "match"
    /\ event.kind \in {"RedrawRequested", "Other"}
    /\ pc' = "check_cleared"
    /\ UNCHANGED << event, cleared, control_flow, redraw_requested, xr_state,
                    xr_frame_state, config, surface_config, depth_view,
                    render_target_view, blit_bind_group, next_view, replaced,
                    camera, instances, camera_buffer, instance_buffer,
                    encoder, frame, submitted, now, ops,
                    xr_calls >>

\* Variant: the early return is missing.
CheckClearedIgnored ==
    /\ pc = "check_cleared"
    /\ pc' = TickSteps[1]
    /\ UNCHANGED << event, cleared, control_flow, redraw_requested, xr_state,
                    xr_frame_state, config, surface_config, depth_view,
                    render_target_view, blit_bind_group, next_view, replaced,
                    camera, instances, camera_buffer, instance_buffer,
                    encoder, frame, submitted, now, ops,
                    xr_calls >>

\* if !cleared { return; }, lines 375-377.
CheckCleared ==
    /\ pc = "check_cleared"
    /\ pc' = IF cleared THEN TickSteps[1] ELSE "idle"
    /\ UNCHANGED << event, cleared, control_flow, redraw_requested, xr_state,
                    xr_frame_state, config, surface_config, depth_view,
                    render_target_view, blit_bind_group, next_view, replaced,
                    camera, instances, camera_buffer, instance_buffer,
                    encoder, frame, submitted, now, ops,
                    xr_calls >>

\* ------------------------------------------------------------------ tick
\* xr_state.as_mut().and_then(|x| x.pre_frame().unwrap()), lines 379-380.
\* Without an XrState (or without the xr feature) nothing is called.
PreFrameResults ==
    { [result |-> r, state |-> 0] : r \in {"Err", "None"} }
    \cup { [result |-> "Some", state |-> f] : f \in FrameStates }

PreFrame ==
    /\ pc = "pre_frame"
    /\ IF xr_state = "Some"
       THEN \E r \in PreFrameResults :
              /\ ops' = Append(ops, "pre_frame")
              /\ xr_calls' = Append(xr_calls,
                     [hook |-> "pre_frame", result |-> r.result,
                      state |-> r.state])
              /\ IF r.result = "Err"
                 THEN /\ pc' = "panicked"
                      /\ UNCHANGED xr_frame_state
                 ELSE /\ pc' = After(TickSteps, "pre_frame", "idle")
                      /\ xr_frame_state' =
                             [some |-> r.result = "Some", state |-> r.state]
       ELSE /\ pc' = After(TickSteps, "pre_frame", "idle")
            /\ xr_frame_state' = NoFrameState
            /\ UNCHANGED << ops, xr_calls >>
    /\ UNCHANGED << event, cleared, control_flow, redraw_requested, xr_state,
                    config, surface_config, depth_view, render_target_view,
                    blit_bind_group, next_view, replaced, camera, instances,
                    camera_buffer, instance_buffer, encoder, frame, submitted,
                    now >>

\* device.create_command_encoder(..), lines 382-384.
CreateEncoder ==
    /\ pc = "create_encoder"
    /\ encoder' = << >>
    /\ pc' = After(TickSteps, "create_encoder", "idle")
    /\ UNCHANGED << event, cleared, control_flow, redraw_requested, xr_state,
                    xr_frame_state, config, surface_config, depth_view,
                    render_target_view, blit_bind_group, next_view, replaced,
                    camera, instances, camera_buffer, instance_buffer, frame,
                    submitted, now, ops,
                    xr_calls >>

\* The scene pass, lines 385-410: colour attachment render_target_view,
\* depth attachment depth_view, one draw of 0..3 by 0..instances.len().
\* Variant: the draw covers a single instance.
ScenePassRecordOneInstance ==
    [kind |-> "scene", color |-> render_target_view, depth |-> depth_view.id,
     bind_view |-> 0, vertices |-> 3, instance_count |-> 1]

ScenePassRecord ==
    [kind |-> "scene", color |-> render_target_view, depth |-> depth_view.id,
     bind_view |-> 0, vertices |-> 3, instance_count |-> Len(instances)]

ScenePass ==
    /\ pc = "scene_pass"
    /\ encoder' = Append(encoder, ScenePassRecord)
    /\ ops' = Append(ops, "scene_pass")
    /\ pc' = After(TickSteps, "scene_pass", "idle")
    /\ UNCHANGED << event, cleared, control_flow, redraw_requested, xr_state,
                    xr_frame_state, config, surface_config, depth_view,
                    render_target_view, blit_bind_group, next_view, replaced,
                    camera, instances, camera_buffer, instance_buffer, frame,
                    submitted, now,
                    xr_calls >>

\* surface.get_current_texture().expect(..), lines 412-417: any SurfaceError
\* panics.
AcquireResults == {"Ok", "Timeout", "Outdated", "Lost", "OutOfMemory"}

\* Variant: a Timeout skips the tick instead of panicking.
AcquireSkipsTimeout ==
    /\ pc = "acquire"
    /\ \E r \in AcquireResults :
         /\ ops' = Append(ops, IF r = "Ok" THEN "acquire" ELSE r)
         /\ IF r = "Ok"
            THEN /\ frame' = "acquired"
                 /\ pc' = After(TickSteps, "acquire", "idle")
            ELSE /\ pc' = IF r = "Timeout" THEN "idle" ELSE "panicked"
                 /\ UNCHANGED frame
    /\ UNCHANGED << event, cleared, control_flow, redraw_requested, xr_state,
                    xr_frame_state, config, surface_config, depth_view,
                    render_target_view, blit_bind_group, next_view, replaced,
                    camera, instances, camera_buffer, instance_buffer,
                    encoder, submitted, now,
                    xr_calls >>

Acquire ==
    /\ pc = "acquire"
    /\ \E r \in AcquireResults :
         /\ ops' = Append(ops, IF r = "Ok" THEN "acquire" ELSE r)
         /\ IF r = "Ok"
            THEN /\ frame' = "acquired"
                 /\ pc' = After(TickSteps, "acquire", "idle")
            ELSE /\ pc' = "panicked"
                 /\ UNCHANGED frame
    /\ UNCHANGED << event, cleared, control_flow, redraw_requested, xr_state,
                    xr_frame_state, config, surface_config, depth_view,
                    render_target_view, blit_bind_group, next_view, replaced,
                    camera, instances, camera_buffer, instance_buffer,
                    encoder, submitted, now,
                    xr_calls >>

\* The blit pass, lines 418-435: colour attachment the frame's view, bind
\* group 0 = blit_bind_group, one draw of 0..6 by 0..1.
BlitPassRecord ==
    [kind |-> "blit",
     color |-> [id |-> 0, width |-> surface_config.width,
                height |-> surface_config.height, format |-> "swapchain"],
     depth |-> 0, bind_view |-> blit_bind_group.view,
     vertices |-> 6, instance_count |-> 1]

BlitPass ==
    /\ pc = "blit_pass"
    /\ encoder' = Append(encoder, BlitPassRecord)
    /\ ops' = Append(ops, "blit_pass")
    /\ pc' = After(TickSteps, "blit_pass", "idle")
    /\ UNCHANGED << event, cleared, control_flow, redraw_requested, xr_state,
                    xr_frame_state, config, surface_config, depth_view,
                    render_target_view, blit_bind_group, next_view, replaced,
                    camera, instances, camera_buffer, instance_buffer, frame,
                    submitted, now,
                    xr_calls >>

\* Lines 437-443: read the clock, camera.eye.z = cos(t) - 1.0, and
\* queue.write_buffer(&camera_buffer, ..).  The clock never runs backwards.
UpdateCamera ==
    /\ pc = "update_camera"
    /\ \E t \in Times :
         /\ t >= now
         /\ now' = t
         /\ LET cam == [camera EXCEPT !.eye[3] = Cos(t) - 1000000]
            IN  /\ camera' = cam
                /\ camera_buffer' = to_view_proj_matrix(cam)
    /\ ops' = ops \o << "update_camera", "write_camera" >>
    /\ pc' = After(TickSteps, "update_camera", "idle")
    /\ UNCHANGED << event, cleared, control_flow, redraw_requested, xr_state,
                    xr_frame_state, config, surface_config, depth_view,
                    render_target_view, blit_bind_group, next_view, replaced,
                    instances, instance_buffer, encoder, frame, submitted,
                    xr_calls >>

\* Variant: the rotation is applied to every entry of the list.
UpdateInstancesRotatesAll ==
    /\ pc = "update_instances"
    /\ LET ins == [ i \in 1..Len(instances) |->
                      << instances[i][1], QuatFromRotationY(now) >> ]
       IN  /\ instances' = ins
           /\ instance_buffer' = instance_poses_to_data(ins)
    /\ ops' = ops \o << "update_instances", "write_instances" >>
    /\ pc' = After(TickSteps, "update_instances", "idle")
    /\ UNCHANGED << event, cleared, control_flow, redraw_requested, xr_state,
                    xr_frame_state, config, surface_config, depth_view,
                    render_target_view, blit_bind_group, next_view, replaced,
                    camera, camera_buffer, encoder, frame, submitted, now,
                    xr_calls >>

\* Lines 445-450: instances[0].1 = Quat::from_rotation_y(t / PI) with the
\* same t, and queue.write_buffer(&instance_buffer, ..) of the whole list.
UpdateInstances ==
    /\ pc = "update_instances"
    /\ LET ins == [instances EXCEPT ![1][2] = QuatFromRotationY(now)]
       IN  /\ instances' = ins
           /\ instance_buffer' = instance_poses_to_data(ins)
    /\ ops' = ops \o << "update_instances", "write_instances" >>
    /\ pc' = After(TickSteps, "update_instances", "idle")
    /\ UNCHANGED << event, cleared, control_flow, redraw_requested, xr_state,
                    xr_frame_state, config, surface_config, depth_view,
                    render_target_view, blit_bind_group, next_view, replaced,
                    camera, camera_buffer, encoder, frame, submitted, now,
                    xr_calls >>

\* queue.submit(Some(encoder.finish())), line 452: the recorded passes run
\* after every buffer write enqueued so far, so their draws read the buffer
\* contents as of this point.
Submit ==
    /\ pc = "submit"
    /\ submitted' = [passes |-> encoder, camera |-> camera_buffer,
                     instances |-> instance_buffer]
    /\ encoder' = << >>
    /\ ops' = Append(ops, "submit")
    /\ pc' = After(TickSteps, "submit", "idle")
    /\ UNCHANGED << event, cleared, control_flow, redraw_requested, xr_state,
                    xr_frame_state, config, surface_config, depth_view,
                    render_target_view, blit_bind_group, next_view, replaced,
                    camera, instances, camera_buffer, instance_buffer, frame,
                    now,
                    xr_calls >>

\* frame.present(), line 453.
Present ==
    /\ pc = "present"
    /\ frame' = "none"
    /\ ops' = Append(ops, "present")
    /\ pc' = After(TickSteps, "present", "idle")
    /\ UNCHANGED << event, cleared, control_flow, redraw_requested, xr_state,
                    xr_frame_state, config, surface_config, depth_view,
                    render_target_view, blit_bind_group, next_view, replaced,
                    camera, instances, camera_buffer, instance_buffer,
                    encoder, submitted, now,
                    xr_calls >>

\* Lines 455-458: with an XrState and a FrameState,
\* post_frame(xr_frame_state).unwrap(); then the FPS bookkeeping and the
\* closure returns (lines 460-470).
PostFrame ==
    /\ pc = "post_frame"
    /\ IF xr_state = "Some" /\ xr_frame_state.some
       THEN \E ok \in BOOLEAN :
              /\ ops' = Append(ops, "post_frame")
              /\ xr_calls' = Append(xr_calls,
                     [hook |-> "post_frame",
                      result |-> IF ok THEN "Ok" ELSE "Err",
                      state |-> xr_frame_state.state])
              /\ pc' = IF ok THEN After(TickSteps, "post_frame", "idle")
                             ELSE "panicked"
       ELSE /\ pc' = After(TickSteps, "post_frame", "idle")
            /\ UNCHANGED << ops, xr_calls >>
    /\ UNCHANGED << event, cleared, control_flow, redraw_requested, xr_state,
                    xr_frame_state, config, surface_config, depth_view,
                    render_target_view, blit_bind_group, next_view, replaced,
                    camera, instances, camera_buffer, instance_buffer,
                    encoder, frame, submitted, now >>

\* event_loop.run leaves the loop once the closure has returned with
\* ControlFlow::Exit (line 371).
LoopExit ==
    /\ pc = "idle"
    /\ control_flow = "Exit"
    /\ pc' = "exited"
    /\ UNCHANGED << event, cleared, control_flow, redraw_requested, xr_state,
                    xr_frame_state, config, surface_config, depth_view,
                    render_target_view, blit_bind_group, next_view, replaced,
                    camera, instances, camera_buffer, instance_buffer,
                    encoder, frame, submitted, now, ops,
                    xr_calls >>

Next ==
    \/ Startup
    \/ Deliver
    \/ MatchResized
    \/ ResizeConfigure
    \/ ResizeDepth
    \/ ResizeTarget
    \/ ResizeBindGroup
    \/ ResizeAspect
    \/ ResizeRequestRedraw
    \/ MatchMainEventsCleared
    \/ MatchCloseRequested
    \/ MatchOther
    \/ CheckCleared
    \/ PreFrame
    \/ CreateEncoder
    \/ ScenePass
    \/ Acquire
    \/ BlitPass
    \/ UpdateCamera
    \/ UpdateInstances
    \/ Submit
    \/ Present
    \/ PostFrame
    \/ LoopExit

Spec == Init /\ [][Next]_vars

\* ============================================================ properties
Has(op) == \E i \in 1..Len(ops) : ops[i] = op
Count(op) == Cardinality({ i \in 1..Len(ops) : ops[i] = op })
Pos(op) == CHOOSE i \in 1..Len(ops) : ops[i] = op
Before(a, b) == Has(a) /\ Has(b) /\ Pos(a) < Pos(b)
IsPrefix(s, t) == Len(s) <= Len(t) /\ \A i \in 1..Len(s) : s[i] = t[i]

InResize == pc \in { ResizeSteps[i] : i \in 1..Len(ResizeSteps) }
InTick == pc \in { TickSteps[i] : i \in 1..Len(TickSteps) }
Returned(kind) == pc = "idle" /\ event.kind = kind
SizeOf(v) == [width |-> v.width, height |-> v.height]

\* The passes of the current tick: still in the encoder, or handed to the
\* queue by this tick's submit.
TickPasses == IF Has("submit") THEN submitted.passes ELSE encoder

\* C1: when the handler of a resize to (w, h), w > 0 and h > 0, has
\* returned, the depth buffer, the offscreen target and the surface
\* configuration all have size (w, h), the blit bind group binds the view
\* created by this resize (the newest view, not a replaced one), and
\* Camera.aspect_ratio is w / h.
C1_ResizeRebuildsEverything ==
    (Returned("Resized") /\ event.width > 0 /\ event.height > 0) =>
        LET size == [width |-> event.width, height |-> event.height]
        IN  /\ SizeOf(depth_view) = size
            /\ SizeOf(render_target_view) = size
            /\ config = size
            /\ surface_config = size
            /\ blit_bind_group.view = render_target_view.id
            /\ render_target_view.id = next_view - 1
            /\ blit_bind_group.view \notin replaced
            /\ camera.aspect_ratio.den # 0
            /\ camera.aspect_ratio.num * event.height =
                   camera.aspect_ratio.den * event.width

\* A resize to a non-square size, delivered after a completed tick, has
\* returned and has replaced both startup views.
C1_Witness ==
    /\ Returned("Resized")
    /\ event.width = 2 /\ event.height = 1
    /\ Cardinality(replaced) = 2
    /\ Len(submitted.passes) = 2
    /\ camera.aspect_ratio = [num |-> 2, den |-> 1]

\* C2: the view bound by the blit pass of a tick is the colour attachment
\* of that tick's scene pass, and it is not a view a resize has replaced.
C2_BlitReadsSceneTarget ==
    Has("blit_pass") =>
        /\ Len(TickPasses) = 2
        /\ TickPasses[1].kind = "scene"
        /\ TickPasses[2].kind = "blit"
        /\ TickPasses[2].bind_view = TickPasses[1].color.id
        /\ TickPasses[2].bind_view \notin replaced

\* A blit pass recorded after a resize replaced the first offscreen target.
C2_Witness ==
    /\ Has("blit_pass")
    /\ replaced # {}
    /\ TickPasses[2].bind_view = render_target_view.id

\* C3: between handler invocations and throughout a tick, the depth buffer
\* and the offscreen target have the size of the current SurfaceConfig, and
\* so has the colour attachment of every recorded scene pass.
C3_TargetsMatchConfig ==
    (pc = "idle" \/ InTick) =>
        /\ SizeOf(depth_view) = config
        /\ SizeOf(render_target_view) = config
        /\ \A i \in 1..Len(encoder) :
              encoder[i].kind = "scene" => SizeOf(encoder[i].color) = config

\* A scene pass is being recorded into targets a resize rebuilt at a
\* non-square size.
C3_Witness ==
    /\ pc = "acquire"
    /\ Len(encoder) = 1
    /\ config = [width |-> 1, height |-> 2]
    /\ replaced # {}

\* C4: a resize performs configure, depth and target rebuild, bind group
\* rebuild and aspect-ratio update in this order and nothing else; no pass
\* is recorded or pending while it runs, and a tick performs no resize step.
ResizeProtocol ==
    << "configure", "create_depth", "create_render_target",
       "create_bind_group", "set_aspect_ratio" >>

PassOps == {"scene_pass", "blit_pass", "submit", "present"}

C4_ResizeAtomicInOrder ==
    /\ event.kind = "Resized" =>
          /\ IsPrefix(ops, ResizeProtocol)
          /\ Returned("Resized") => ops = ResizeProtocol
    /\ InResize => encoder = << >> /\ frame = "none"
    /\ (\E i \in 1..Len(ops) : ops[i] \in PassOps) =>
          \A j \in 1..Len(ops) :
             \A k \in 1..Len(ResizeProtocol) : ops[j] # ResizeProtocol[k]

\* A resize that follows a completed tick is between its third and fourth
\* step.
C4_Witness ==
    /\ pc = "resize_aspect"
    /\ ops = << "configure", "create_depth", "create_render_target",
                "create_bind_group" >>
    /\ Len(submitted.passes) = 2

\* C5: the pass operations of a tick occur in the order scene pass, blit
\* pass, submit, present, each at most once and none before its
\* predecessor; a tick that returns to Idle has performed all four.
RendererCycle == << "scene_pass", "blit_pass", "submit", "present" >>

PassTrace == SelectSeq(ops, LAMBDA op : op \in PassOps)

\* FrameRenderer state of section 4.4, read off the pass operations done.
RendererState ==
    IF ~InTick \/ PassTrace = << >> THEN "Idle"
    ELSE CASE PassTrace[Len(PassTrace)] = "scene_pass" -> "RecordScene"
           [] PassTrace[Len(PassTrace)] = "blit_pass" -> "RecordBlit"
           [] PassTrace[Len(PassTrace)] = "submit" -> "Submitted"
           [] PassTrace[Len(PassTrace)] = "present" -> "Presented"

C5_TickCycleInOrder ==
    /\ IsPrefix(PassTrace, RendererCycle)
    /\ Returned("MainEventsCleared") => PassTrace = RendererCycle
    /\ RendererState = "RecordBlit" =>
          Len(encoder) = 2 /\ encoder[1].kind = "scene"
    /\ RendererState \in {"Submitted", "Presented"} =>
          Len(submitted.passes) = 2 /\ encoder = << >>

\* A tick has presented and is about to return to Idle.
C5_Witness ==
    /\ RendererState = "Presented"
    /\ PassTrace = RendererCycle
    /\ pc = "post_frame"

\* C6: the queue receives at most one submission per handler invocation;
\* it carries the scene pass and the blit pass of one encoder, both
\* recorded before it; a completed tick has submitted exactly once, and a
\* handler invocation that is not a tick neither submits nor presents.
C6_OneSubmissionPerTick ==
    /\ Count("submit") <= 1
    /\ Has("submit") =>
          /\ Before("scene_pass", "blit_pass")
          /\ Before("blit_pass", "submit")
          /\ Len(submitted.passes) = 2
          /\ submitted.passes[1].kind = "scene"
          /\ submitted.passes[2].kind = "blit"
    /\ Returned("MainEventsCleared") =>
          Count("submit") = 1 /\ Count("present") = 1
    /\ event.kind # "MainEventsCleared" =>
          ~Has("submit") /\ ~Has("present") /\ ~InTick

\* A tick has returned after its single submission.
C6_Witness ==
    /\ Returned("MainEventsCleared")
    /\ Count("submit") = 1
    /\ replaced # {}

AcquireErrors == AcquireResults \ {"Ok"}
AcquireFailed == \E e \in AcquireErrors : Has(e)

\* C7 as stated: after a failed acquisition the tick has recorded neither
\* pass, has submitted and presented nothing, and the loop goes on.
C7_Original ==
    AcquireFailed =>
        /\ ~Has("scene_pass") /\ ~Has("blit_pass")
        /\ ~Has("submit") /\ ~Has("present")
        /\ pc # "panicked"

\* C7 (amended): when the acquisition of a tick fails, the scene pass of
\* that tick is already recorded in the encoder, which is never submitted;
\* no blit pass is recorded, nothing is presented, and the closure panics
\* instead of returning to Idle.
C7_AcquireFailureAfterScenePass ==
    AcquireFailed =>
        /\ Before("scene_pass", ops[Len(ops)])
        /\ Len(encoder) = 1 /\ encoder[1].kind = "scene"
        /\ ~Has("blit_pass")
        /\ ~Has("submit") /\ ~Has("present")
        /\ frame = "none"
        /\ pc = "panicked"

\* A Timeout in a tick that follows a completed tick.
C7_Witness ==
    /\ Has("Timeout")
    /\ pc = "panicked"
    /\ Len(submitted.passes) = 2

\* C8: every kind of acquisition failure ends the process in the tick where
\* it happens: the run is in the panicked state, from which no handler is
\* ever invoked, and that tick has recorded no blit pass, written neither
\* buffer, submitted nothing and presented nothing.
C8_AcquireFailureIsFatal ==
    \A e \in AcquireErrors : Has(e) =>
        /\ pc = "panicked"
        /\ ops[Len(ops)] = e
        /\ \A op \in {"blit_pass", "write_camera", "write_instances",
                       "update_camera", "update_instances", "submit",
                       "present", "post_frame"} : ~Has(op)
        /\ ~ENABLED Deliver

\* The surface was lost after a resize.
C8_Witness == Has("Lost") /\ pc = "panicked" /\ replaced # {}

\* C9 as stated: the camera update and both uploads precede the scene pass.
C9_Original ==
    Has("scene_pass") =>
        /\ Before("update_camera", "scene_pass")
        /\ Before("write_camera", "scene_pass")
        /\ Before("write_instances", "scene_pass")

\* C9 (amended): in every tick the camera update (eye.z = cos(elapsed) - 1)
\* and the camera and instance buffer uploads are performed after the scene
\* pass and the blit pass of that tick are recorded, and before that tick's
\* submission.
UpdateOps ==
    {"update_camera", "write_camera", "update_instances", "write_instances"}

C9_UpdatesAfterPassesBeforeSubmit ==
    /\ \A u \in UpdateOps : Has(u) =>
          /\ Before("scene_pass", u)
          /\ Before("blit_pass", u)
          /\ Has("submit") => Before(u, "submit")
    /\ Has("submit") => \A u \in UpdateOps : Has(u)
    /\ Has("update_camera") =>
          /\ camera.eye[3] = Cos(now) - 1000000
          /\ camera.eye[1] = 0 /\ camera.eye[2] = 0

\* Both uploads are done and the submission is next; the clock has moved.
C9_Witness ==
    /\ pc = "submit"
    /\ Has("write_camera") /\ Has("write_instances")
    /\ now = 1
    /\ camera.eye[3] < 0

\* C10: at a tick's submission each buffer has been written exactly once in
\* that tick, before the submit, and the submitted draws read the matrices
\* of the camera and instances as updated in this tick.
C10_SubmitReadsThisTicksData ==
    Has("submit") =>
        /\ Count("write_camera") = 1 /\ Count("write_instances") = 1
        /\ Before("write_camera", "submit")
        /\ Before("write_instances", "submit")
        /\ camera.eye[3] = Cos(now) - 1000000
        /\ instances[1][2] = QuatFromRotationY(now)
        /\ submitted.camera = to_view_proj_matrix(camera)
        /\ submitted.instances = instance_poses_to_data(instances)

\* The second tick submits data that differs from the first tick's and from
\* the startup contents.
C10_Witness ==
    /\ Has("submit")
    /\ now = 2
    /\ submitted.camera.view.eye[3] = Cos(2) - 1000000
    /\ submitted.instances[1].rotation = QuatFromRotationY(2)

\* ------------------------------------------------------------- XR hooks
XrCalls(hook) == SelectSeq(xr_calls, LAMBDA c : c.hook = hook)
PreFrameReturned(result) ==
    \E i \in 1..Len(xr_calls) :
        xr_calls[i].hook = "pre_frame" /\ xr_calls[i].result = result

\* Operations on the surface and the GPU queue that make up rendering.
RenderOps ==
    {"scene_pass", "acquire", "blit_pass", "submit", "present"}
    \cup AcquireErrors

\* C11 as stated: in a tick where pre_frame returned nothing, no scene
\* pass, no frame acquisition, no blit pass, no submission and no present
\* happen, and the tick is not an error.
C11_Original ==
    (xr_state = "Some" /\ PreFrameReturned("None")) =>
        /\ \A op \in RenderOps : ~Has(op)
        /\ pc # "panicked"

\* C12: with an XrState, a tick calls pre_frame exactly once, before any
\* other operation; post_frame is called at most once, after the submit
\* and the present, with the FrameState pre_frame returned in this tick;
\* and a tick that runs to its end has called post_frame exactly when
\* pre_frame returned a FrameState.
TickEnded ==
    /\ event.kind = "MainEventsCleared"
    /\ \/ pc = "idle"
       \/ pc = "panicked" /\ Has("post_frame")

C13_Original ==
    /\ xr_state = "None" =>
          xr_calls = << >> /\ ~Has("pre_frame") /\ ~Has("post_frame")
    /\ (xr_state = "Some" /\ PreFrameReturned("None")) =>
          PassTrace = << >> /\ frame = "none" /\ encoder = << >>

\* --------------------------------------------------------- event kinds
TickOps ==
    RenderOps \cup UpdateOps \cup {"pre_frame", "post_frame"}

\* C14 as stated: a RedrawRequested event has performed one whole tick when
\* its handler returns, and no other event starts a tick.
C14_Original ==
    /\ Returned("RedrawRequested") => PassTrace = RendererCycle
    /\ event.kind # "RedrawRequested" => ~InTick

\* C14 (amended): each MainEventsCleared event triggers exactly one tick,
\* performed before its handler returns, and no event of another kind
\* (RedrawRequested included) triggers a tick.
C14_MainEventsClearedTicksOnce ==
    /\ InTick => event.kind = "MainEventsCleared" /\ cleared
    /\ Returned("MainEventsCleared") =>
          \A i \in 1..Len(RendererCycle) : Count(RendererCycle[i]) = 1
    /\ (event.kind = "MainEventsCleared" /\ pc = "check_cleared") => cleared
    /\ event.kind # "MainEventsCleared" =>
          /\ ~InTick
          /\ \A op \in TickOps : ~Has(op)
          /\ pc # "match" => ~cleared

\* A tick has run to its end under MainEventsCleared, and the redraw it
\* requested is still pending.
C14_Witness ==
    /\ Returned("MainEventsCleared")
    /\ PassTrace = RendererCycle
    /\ redraw_requested
    /\ now = MaxTime

\* C15 as stated: once a CloseRequested event has set the control flow to
\* Exit, no later step changes it back and no tick is entered.
C15_Original ==
    [][control_flow = "Exit" => (control_flow' = "Exit" /\ ~InTick')]_vars

\* C16: the scene pass of every tick issues one draw of 3 vertices by as
\* many instances as the instance list holds, which is 3, and the blit pass
\* one draw of 6 vertices by 1 instance.
C16_DrawCounts ==
    /\ pc # "start" => Len(instances) = 3
    /\ \A i \in 1..Len(TickPasses) :
          LET pass == TickPasses[i]
          IN  /\ pass.kind = "scene" =>
                    /\ pass.vertices = 3
                    /\ pass.instance_count = Len(instances)
                    /\ pass.instance_count = 3
              /\ pass.kind = "blit" =>
                    pass.vertices = 6 /\ pass.instance_count = 1
    /\ Has("scene_pass") =>
          Len(TickPasses) >= 1 /\ TickPasses[1].kind = "scene"
    /\ Has("blit_pass") =>
          Len(TickPasses) = 2 /\ TickPasses[2].kind = "blit"

\* Both draws are recorded in a tick that follows an instance update and a
\* resize.
C16_Witness ==
    /\ pc = "update_camera"
    /\ Len(encoder) = 2
    /\ instances[1][2] # QuatIdentity
    /\ replaced # {}

\* ------------------------------------------------------ startup failure
GraphicsInitErrors == {"NoCompatibleAdapter", "DeviceCreationFailed"}

\* C17: when adapter selection or device creation fails, main has returned
\* the error: startup is not tried again, the surface is not configured, no
\* depth buffer, offscreen target or bind group exists, and the closure is
\* never invoked.
C17_InitFailureAborts ==
    \A e \in GraphicsInitErrors : Has(e) =>
        /\ pc = "exit_err"
        /\ ops = << e >>
        /\ surface_config = [width |-> 0, height |-> 0]
        /\ depth_view = NoView
        /\ render_target_view = NoView
        /\ blit_bind_group.view = 0
        /\ next_view = 1
        /\ event = NoEvent
        /\ submitted.passes = << >>
        /\ ~ENABLED Startup
        /\ ~ENABLED Deliver

\* Device creation has failed.
C17_Witness == pc = "exit_err" /\ ops = << "DeviceCreationFailed" >>

\* C18 as stated: a failed post_frame leaves the process running.
PostFrameFailed ==
    \E i \in 1..Len(xr_calls) :
        xr_calls[i].hook = "post_frame" /\ xr_calls[i].result = "Err"

C18_Original == PostFrameFailed => pc # "panicked"

\* C19: a tick acquires at most one frame; a frame is held exactly from its
\* acquisition to its present, which happens once, in the same invocation
\* and after the submit; no frame is held outside a tick.
AcquireAttempts == SelectSeq(ops, LAMBDA op : op \in AcquireResults \cup {"acquire"})

C19_FramePresentedOnce ==
    /\ Len(AcquireAttempts) <= 1
    /\ Count("present") <= 1
    /\ frame = "acquired" <=> (Has("acquire") /\ ~Has("present"))
    /\ frame = "acquired" => InTick
    /\ Has("present") =>
          /\ Before("acquire", "submit")
          /\ Before("submit", "present")
    /\ ~InTick => frame = "none"
    /\ (Has("acquire") /\ ~InTick) => Count("present") = 1

\* An acquired frame is held after the submit, just before its present.
C19_Witness ==
    /\ pc = "present"
    /\ frame = "acquired"
    /\ Has("submit")
    /\ Len(submitted.passes) = 2

\* C20: every step leaves target, up, field of view, near and far at their
\* construction values and eye.x, eye.y at 0; eye changes only in the
\* tick's camera update, which leaves aspect_ratio alone; aspect_ratio
\* changes only at construction and in the resize's aspect step, which
\* leaves eye alone.
C20_CameraFieldEffects ==
    [][ /\ camera'.target = InitialCamera.target
        /\ camera'.up = InitialCamera.up
        /\ camera'.fov_y_deg = InitialCamera.fov_y_deg
        /\ camera'.z_near_milli = InitialCamera.z_near_milli
        /\ camera'.z_far = InitialCamera.z_far
        /\ camera'.eye[1] = 0 /\ camera'.eye[2] = 0
        /\ camera'.eye # camera.eye =>
              pc = "update_camera" /\ event.kind = "MainEventsCleared"
        /\ camera'.aspect_ratio # camera.aspect_ratio =>
              \/ pc = "start"
              \/ pc = "resize_aspect" /\ event.kind = "Resized"
        /\ InTick => camera'.aspect_ratio = camera.aspect_ratio
        /\ InResize => camera'.eye = camera.eye
      ]_vars

\* A resize has changed the aspect ratio of a camera whose eye a tick had
\* moved.
C20_Witness ==
    /\ Returned("Resized")
    /\ camera.eye[3] < 0
    /\ camera.aspect_ratio = [num |-> 1, den |-> 2]
    /\ Len(submitted.passes) = 2

\* ------------------------------------------------------------- instances
\* C21: every step leaves the instance list at length 3 with the
\* construction translations in the construction order and the identity
\* rotation in entries 1 and 2; the list changes only in the tick's instance
\* update, which replaces the rotation of entry 0 and nothing else; and the
\* instance buffer is written once per tick, in that step, with one matrix
\* per entry of the whole list, in list order.
C21_OnlyEntryZeroRotates ==
    [][ /\ Len(instances') = Len(InitialInstances)
        /\ \A i \in 1..Len(InitialInstances) :
              instances'[i][1] = InitialInstances[i][1]
        /\ \A i \in 2..Len(InitialInstances) :
              instances'[i][2] = InitialInstances[i][2]
        /\ instances' # instances =>
              /\ pc = "update_instances"
              /\ event.kind = "MainEventsCleared"
        /\ pc = "update_instances" =>
              /\ instances' =
                     [instances EXCEPT ![1][2] = QuatFromRotationY(now)]
              /\ Len(instance_buffer') = Len(instances')
              /\ \A i \in 1..Len(instances') :
                    /\ instance_buffer'[i].translation = instances'[i][1]
                    /\ instance_buffer'[i].rotation = instances'[i][2]
              /\ Count("write_instances")' = Count("write_instances") + 1
        /\ instance_buffer' # instance_buffer => pc = "update_instances"
        /\ Count("write_instances")' <= 1
        /\ Returned("MainEventsCleared")' => Count("write_instances")' = 1
        /\ (InResize \/ pc = "match") =>
              instances' = instances /\ instance_buffer' = instance_buffer
      ]_vars

\* A tick that follows a resize has rotated entry 0 and uploaded the list.
C21_Witness ==
    /\ pc = "submit"
    /\ Has("write_instances")
    /\ replaced # {}
    /\ instances[1][2] = QuatFromRotationY(1)
    /\ instances[2][2] = QuatIdentity
    /\ instance_buffer[1].rotation = QuatFromRotationY(1)

\* ------------------------------------------------------------ zero sizes
\* C22 as stated: between handler invocations, from the first one on,
\* SurfaceConfig.height is not 0 and Camera.aspect_ratio is the quotient
\* SurfaceConfig.width / SurfaceConfig.height.
C22_Original ==
    pc = "idle" =>
        /\ config.height # 0
        /\ camera.aspect_ratio.den # 0
        /\ camera.aspect_ratio.num * config.height =
               camera.aspect_ratio.den * config.width

\* C23 as stated: no configure, depth-buffer or offscreen-target creation
\* is called or completed with a zero width or height, and the aspect-ratio
\* division never has a zero height as its divisor.
C23_Original ==
    pc \notin {"start", "exit_err"} =>
        /\ pc \in {"resize_configure", "resize_depth", "resize_target"} =>
              ~ZeroArea(config)
        /\ ~ZeroArea(surface_config)
        /\ ~ZeroArea(depth_view)
        /\ ~ZeroArea(render_target_view)
        /\ pc = "resize_aspect" => event.height # 0
        /\ camera.aspect_ratio.den # 0

====
